---- MODULE Spec2Model ----
(***************************************************************************)
(* Model of organizations/api.py: the validation and orchestration layer   *)
(* of the edx-organizations app.  Every public function of api.py is an    *)
(* operator from the storage state (and its arguments) to an outcome: the  *)
(* exception raised or the value returned, the storage state afterwards    *)
(* and the data-layer calls made.  The data layer, the validators and the  *)
(* exceptions module are collaborators whose code is not part of api.py;   *)
(* they are modelled from the specification.                               *)
(***************************************************************************)
EXTENDS Integers, Sequences, FiniteSets

VARIABLES
    orgs,       \* stored organizations: a set of [id, short_name, name]
    links,      \* stored organization-course links: a set of <<id, course_key>>
    next_id,    \* the id the storage assigns to the next organization created
    unique,     \* whether the storage enforces uniqueness of short_name
    settings,   \* django.conf.settings, as far as api.py reads it
    last,       \* the last completed call of the API: arguments and outcome
    pc,         \* concurrent callers of ensure_organization: position
    arg,        \* concurrent callers: the short name passed
    ret         \* concurrent callers: what the call has fetched and returned

vars == <<orgs, links, next_id, unique, settings, last, pc, arg, ret>>

(***************************************************************************)
(* Bounds and value domains.                                               *)
(***************************************************************************)
MaxOrgs == 2

Ids == 1..MaxOrgs

ShortNames == {"", "MITx"}

OrgNames == {"", "MITx"}

WellFormedCourseKeys == {"course-v1:MITx+6.002x+2012"}

CourseKeys == WellFormedCourseKeys \cup {"not a course key"}

\* Python's None.
None == [none |-> TRUE]

\* The organization dictionaries a caller may pass: None, a dictionary of a
\* new organization (no id yet), or one carrying an id.
OrgInputs ==
    {None}
    \cup [short_name : ShortNames, name : OrgNames]
    \cup [id : Ids, short_name : ShortNames, name : OrgNames]

\* Python values a setting may hold, and their truthiness.
PyValues == {"True", "False", "None", "0", "1", "'off'"}

\* bool(v): False, None and 0 are falsy; a non-empty string is truthy.
bool(v) == v \in {"True", "1", "'off'"}

\* settings objects: the attributes that exist (has) and their values; an
\* attribute that does not exist holds a fixed value nothing reads.  FEATURES
\* is a dictionary, held as a set of <<key, value>> pairs.
FeatureMaps == {{}} \cup {{<<"ORGANIZATIONS_APP", v>>} : v \in PyValues}

SettingsObjects ==
    {s \in [has : SUBSET {"ORGANIZATIONS_AUTOCREATE", "FEATURES"},
             ORGANIZATIONS_AUTOCREATE : PyValues,
             FEATURES : FeatureMaps] :
        /\ ("ORGANIZATIONS_AUTOCREATE" \notin s.has => s.ORGANIZATIONS_AUTOCREATE = "None")
        /\ ("FEATURES" \notin s.has => s.FEATURES = {})}

\* The settings of four deployments: nothing configured; auto-create switched
\* off; auto-create switched on beside the legacy flag; the legacy flag alone.
DeploymentSettings ==
    {s \in SettingsObjects :
        \/ s.has = {}
        \/ s.has = {"ORGANIZATIONS_AUTOCREATE"} /\ s.ORGANIZATIONS_AUTOCREATE = "False"
        \/ /\ s.has = {"ORGANIZATIONS_AUTOCREATE", "FEATURES"}
           /\ s.ORGANIZATIONS_AUTOCREATE = "True"
           /\ s.FEATURES = {<<"ORGANIZATIONS_APP", "True">>}
        \/ s.has = {"FEATURES"} /\ s.FEATURES = {<<"ORGANIZATIONS_APP", "True">>}}

\* hasattr(settings, attribute): reading a missing attribute raises AttributeError.
hasattr(cfg, attribute) == attribute \in cfg.has

(***************************************************************************)
(* Exceptions and outcomes.                                                *)
(***************************************************************************)
NoException == "NoException"

InvalidCourseKeyException == "InvalidCourseKeyException"

InvalidOrganizationException == "InvalidOrganizationException"

IntegrityError == "IntegrityError"

MultipleObjectsReturned == "MultipleObjectsReturned"

Store == [orgs |-> orgs, links |-> links, next_id |-> next_id, unique |-> unique]

Outcome(e, r, st, c) == [exc |-> e, result |-> r, store |-> st, calls |-> c]

\* exceptions.raise_exception: the exception leaves the function; nothing is
\* returned and the storage is as it was.
raise_exception(e, st, c) == Outcome(e, None, st, c)

(***************************************************************************)
(* validators                                                              *)
(***************************************************************************)
course_key_is_valid(course_key) == course_key \in WellFormedCourseKeys

organization_data_is_valid(organization_data) ==
    IF organization_data = None THEN FALSE
    ELSE organization_data.name # ""

(***************************************************************************)
(* data: the storage layer.  Each operation names itself in calls.         *)
(***************************************************************************)
OrgsNamed(st, short_name) == {o \in st.orgs : o.short_name = short_name}

OrgsWithId(st, id) == {o \in st.orgs : o.id = id}

create_organization(st, organization) ==
    LET c == <<"create_organization">>
        new == [id |-> st.next_id,
                short_name |-> organization.short_name,
                name |-> organization.name]
    IN  IF st.unique /\ OrgsNamed(st, organization.short_name) # {}
        THEN raise_exception(IntegrityError, st, c)
        ELSE Outcome(NoException, new,
                     [st EXCEPT !.orgs = @ \cup {new}, !.next_id = @ + 1], c)

update_organization(st, organization) ==
    LET c == <<"update_organization">>
    IN  IF "id" \notin DOMAIN organization
           \/ OrgsWithId(st, organization.id) = {}
        THEN raise_exception(InvalidOrganizationException, st, c)
        ELSE LET old == CHOOSE o \in st.orgs : o.id = organization.id
                 new == [id |-> old.id,
                         short_name |-> organization.short_name,
                         name |-> organization.name]
             IN  IF st.unique
                    /\ OrgsNamed(st, new.short_name) \ {old} # {}
                 THEN raise_exception(IntegrityError, st, c)
                 ELSE Outcome(NoException, new,
                              [st EXCEPT !.orgs = (@ \ {old}) \cup {new}], c)

fetch_organization(st, organization_id) ==
    LET c == <<"fetch_organization">>
    IN  IF OrgsWithId(st, organization_id) = {}
        THEN raise_exception(InvalidOrganizationException, st, c)
        ELSE Outcome(NoException,
                     CHOOSE o \in st.orgs : o.id = organization_id, st, c)

fetch_organization_by_short_name(st, organization_short_name) ==
    LET c == <<"fetch_organization_by_short_name">>
        found == OrgsNamed(st, organization_short_name)
    IN  IF found = {}
        THEN raise_exception(InvalidOrganizationException, st, c)
        ELSE IF Cardinality(found) > 1
        THEN raise_exception(MultipleObjectsReturned, st, c)
        ELSE Outcome(NoException, CHOOSE o \in found : TRUE, st, c)

\* A set of organizations as the sequence the storage returns: by ascending id.
RECURSIVE ById(_)
ById(S) ==
    IF S = {} THEN <<>>
    ELSE LET first == CHOOSE o \in S : \A p \in S : o.id <= p.id
         IN  <<first>> \o ById(S \ {first})

fetch_organizations(st) ==
    Outcome(NoException, ById(st.orgs), st, <<"fetch_organizations">>)

delete_organization(st, organization) ==
    Outcome(NoException, None,
            [st EXCEPT !.orgs = {o \in @ : o.id # organization.id},
                       !.links = {l \in @ : l[1] # organization.id}],
            <<"delete_organization">>)

create_organization_course(st, organization, course_key) ==
    LET c == <<"create_organization_course">>
    IN  IF "id" \notin DOMAIN organization
           \/ OrgsWithId(st, organization.id) = {}
        THEN raise_exception(InvalidOrganizationException, st, c)
        ELSE Outcome(NoException, None,
                     [st EXCEPT !.links = @ \cup {<<organization.id, course_key>>}],
                     c)

delete_organization_course(st, course_key, organization) ==
    LET c == <<"delete_organization_course">>
    IN  IF "id" \notin DOMAIN organization
        THEN Outcome(NoException, None, st, c)
        ELSE Outcome(NoException, None,
                     [st EXCEPT !.links = @ \ {<<organization.id, course_key>>}],
                     c)

\* A set of course keys as the sequence the storage returns: some fixed order.
RECURSIVE KeySeq(_)
KeySeq(S) ==
    IF S = {} THEN <<>>
    ELSE LET first == CHOOSE k \in S : TRUE
         IN  <<first>> \o KeySeq(S \ {first})

fetch_organization_courses(st, organization) ==
    LET c == <<"fetch_organization_courses">>
    IN  IF "id" \notin DOMAIN organization
        THEN Outcome(NoException, <<>>, st, c)
        ELSE Outcome(NoException,
                     KeySeq({l[2] : l \in {m \in st.links : m[1] = organization.id}}),
                     st, c)

fetch_course_organizations(st, course_key) ==
    Outcome(NoException,
            ById({o \in st.orgs : <<o.id, course_key>> \in st.links}),
            st, <<"fetch_course_organizations">>)

delete_course_references(st, course_key) ==
    Outcome(NoException, None,
            [st EXCEPT !.links = {l \in @ : l[2] # course_key}],
            <<"delete_course_references">>)

(***************************************************************************)
(* api.py: private helpers.                                                *)
(***************************************************************************)
\* The exception the helper raises, or NoException when it returns.
_validate_course_key(course_key) ==
    IF ~course_key_is_valid(course_key)
    THEN InvalidCourseKeyException
    ELSE NoException

_validate_organization_data(organization_data) ==
    IF ~organization_data_is_valid(organization_data)
    THEN InvalidOrganizationException
    ELSE NoException

(***************************************************************************)
(* api.py: public functions.                                               *)
(***************************************************************************)
add_organization(st, organization_data) ==
    LET v == _validate_organization_data(organization_data)
    IN  IF v # NoException THEN raise_exception(v, st, <<>>)
        ELSE create_organization(st, organization_data)

edit_organization(st, organization_data) ==
    LET v == _validate_organization_data(organization_data)
    IN  IF v # NoException THEN raise_exception(v, st, <<>>)
        ELSE update_organization(st, organization_data)

get_organization(st, organization_id) ==
    fetch_organization(st, organization_id)

get_organization_by_short_name(st, organization_short_name) ==
    fetch_organization_by_short_name(st, organization_short_name)

get_organizations(st) == fetch_organizations(st)

remove_organization(st, organization_id) ==
    delete_organization(st, [id |-> organization_id])

\* Mutant: the organization record is validated before the course key.
add_organization_course_OrgFirst(st, organization_data, course_key) ==
    LET vk == _validate_course_key(course_key)
        vo == _validate_organization_data(organization_data)
    IN  IF vo # NoException THEN raise_exception(vo, st, <<>>)
        ELSE IF vk # NoException THEN raise_exception(vk, st, <<>>)
        ELSE create_organization_course(st, organization_data, course_key)

add_organization_course(st, organization_data, course_key) ==
    LET vk == _validate_course_key(course_key)
        vo == _validate_organization_data(organization_data)
    IN  IF vk # NoException THEN raise_exception(vk, st, <<>>)
        ELSE IF vo # NoException THEN raise_exception(vo, st, <<>>)
        ELSE create_organization_course(st, organization_data, course_key)

\* Mutant: the organization record goes to the data layer unvalidated.
get_organization_courses_Unvalidated(st, organization_data) ==
    fetch_organization_courses(st, organization_data)

get_organization_courses(st, organization_data) ==
    LET v == _validate_organization_data(organization_data)
    IN  IF v # NoException THEN raise_exception(v, st, <<>>)
        ELSE fetch_organization_courses(st, organization_data)

remove_organization_course(st, organization, course_key) ==
    LET vo == _validate_organization_data(organization)
        vk == _validate_course_key(course_key)
    IN  IF vo # NoException THEN raise_exception(vo, st, <<>>)
        ELSE IF vk # NoException THEN raise_exception(vk, st, <<>>)
        ELSE delete_organization_course(st, course_key, organization)

get_course_organizations(st, course_key) ==
    LET v == _validate_course_key(course_key)
    IN  IF v # NoException THEN raise_exception(v, st, <<>>)
        ELSE fetch_course_organizations(st, course_key)

\* Mutant: the last linked organization is returned instead of the first.
get_course_organization_Last(st, course_key) ==
    LET v == _validate_course_key(course_key)
    IN  IF v # NoException THEN raise_exception(v, st, <<>>)
        ELSE LET course_organization == get_course_organizations(st, course_key)
             IN  IF course_organization.exc # NoException THEN course_organization
                 ELSE IF Len(course_organization.result) > 0
                 THEN [course_organization EXCEPT !.result = @[Len(@)]]
                 ELSE [course_organization EXCEPT !.result = None]

get_course_organization(st, course_key) ==
    LET v == _validate_course_key(course_key)
    IN  IF v # NoException THEN raise_exception(v, st, <<>>)
        ELSE LET course_organization == get_course_organizations(st, course_key)
             IN  IF course_organization.exc # NoException THEN course_organization
                 ELSE IF Len(course_organization.result) > 0
                 THEN [course_organization EXCEPT !.result = @[1]]
                 ELSE [course_organization EXCEPT !.result = None]

get_course_organization_id(st, course_key) ==
    LET course_org == get_course_organization(st, course_key)
    IN  IF course_org.exc # NoException THEN course_org
        ELSE IF course_org.result # None
        THEN [course_org EXCEPT !.result = @.id]
        ELSE [course_org EXCEPT !.result = None]

\* Mutant: the course key goes to the data layer unvalidated.
remove_course_references_Unvalidated(st, course_key) ==
    delete_course_references(st, course_key)

remove_course_references(st, course_key) ==
    LET v == _validate_course_key(course_key)
    IN  IF v # NoException THEN raise_exception(v, st, <<>>)
        ELSE delete_course_references(st, course_key)

\* settings.FEATURES.get(key, default)
DictGet(map, key, default) ==
    IF \E p \in map : p[1] = key
    THEN (CHOOSE p \in map : p[1] = key)[2]
    ELSE default

\* Mutant: the legacy flag, when enabled, wins over ORGANIZATIONS_AUTOCREATE.
is_autocreate_enabled_LegacyFirst(cfg) ==
    LET features == IF hasattr(cfg, "FEATURES") THEN cfg.FEATURES ELSE {}
        old_organizations_flag_enabled ==
            bool(DictGet(features, "ORGANIZATIONS_APP", "False"))
    IN  IF old_organizations_flag_enabled THEN FALSE
        ELSE IF hasattr(cfg, "ORGANIZATIONS_AUTOCREATE")
        THEN bool(cfg.ORGANIZATIONS_AUTOCREATE)
        ELSE TRUE

is_autocreate_enabled(cfg) ==
    IF hasattr(cfg, "ORGANIZATIONS_AUTOCREATE")
    THEN bool(cfg.ORGANIZATIONS_AUTOCREATE)
    ELSE LET features == IF hasattr(cfg, "FEATURES") THEN cfg.FEATURES ELSE {}
             old_organizations_flag_enabled ==
                 bool(DictGet(features, "ORGANIZATIONS_APP", "False"))
         IN  ~old_organizations_flag_enabled

\* The record ensure_organization passes to add_organization.
AutoCreated(organization_short_name) ==
    [short_name |-> organization_short_name, name |-> organization_short_name]

\* Mutant: the auto-create flag is not consulted; a missing organization is
\* always created.
ensure_organization_NoFlagCheck(st, cfg, organization_short_name) ==
    LET got == get_organization_by_short_name(st, organization_short_name)
    IN  IF got.exc = NoException THEN got
        ELSE IF got.exc # InvalidOrganizationException THEN got
        ELSE LET added == add_organization(got.store,
                                           AutoCreated(organization_short_name))
             IN  [added EXCEPT !.calls = got.calls \o @]

\* Mutant: with auto-create disabled the call fails before it looks the
\* organization up.
ensure_organization_FlagFirst(st, cfg, organization_short_name) ==
    IF ~is_autocreate_enabled(cfg)
    THEN raise_exception(InvalidOrganizationException, st, <<>>)
    ELSE LET got == get_organization_by_short_name(st, organization_short_name)
         IN  IF got.exc = NoException THEN got
             ELSE IF got.exc # InvalidOrganizationException THEN got
             ELSE LET added == add_organization(got.store,
                                                AutoCreated(organization_short_name))
                  IN  [added EXCEPT !.calls = got.calls \o @]

ensure_organization(st, cfg, organization_short_name) ==
    LET got == get_organization_by_short_name(st, organization_short_name)
    IN  IF got.exc = NoException THEN got
        ELSE IF got.exc # InvalidOrganizationException THEN got
        ELSE IF ~is_autocreate_enabled(cfg) THEN got
        ELSE LET added == add_organization(got.store,
                                           AutoCreated(organization_short_name))
             IN  [added EXCEPT !.calls = got.calls \o @]

(***************************************************************************)
(* The sequential API: one action per public function.  A call runs to     *)
(* completion; last records its arguments and its outcome.                 *)
(***************************************************************************)
Callers == {1, 2}

NoCall ==
    [op |-> "none", org |-> None, key |-> "", id |-> 0, sname |-> "",
     exc |-> NoException, result |-> None, calls |-> <<>>]

NoReturn == [fetched |-> "pending", exc |-> NoException, result |-> None,
             calls |-> <<>>]

\* The storage after an outcome.  The storage assigns ids up to MaxOrgs.
Stored(o) ==
    /\ o.store.next_id <= MaxOrgs + 1
    /\ orgs' = o.store.orgs
    /\ links' = o.store.links
    /\ next_id' = o.store.next_id
    /\ UNCHANGED <<unique, settings>>

Completed(op, org, key, id, sname, o) ==
    /\ Stored(o)
    /\ last' = [op |-> op, org |-> org, key |-> key, id |-> id, sname |-> sname,
                exc |-> o.exc, result |-> o.result, calls |-> o.calls]
    /\ UNCHANGED <<pc, arg, ret>>

AddOrganization ==
    \E d \in OrgInputs :
        Completed("add_organization", d, "", 0, "", add_organization(Store, d))

EditOrganization ==
    \E d \in OrgInputs :
        Completed("edit_organization", d, "", 0, "", edit_organization(Store, d))

GetOrganization ==
    \E i \in Ids :
        Completed("get_organization", None, "", i, "", get_organization(Store, i))

GetOrganizationByShortName ==
    \E s \in ShortNames :
        Completed("get_organization_by_short_name", None, "", 0, s,
                  get_organization_by_short_name(Store, s))

GetOrganizations ==
    Completed("get_organizations", None, "", 0, "", get_organizations(Store))

RemoveOrganization ==
    \E i \in Ids :
        Completed("remove_organization", None, "", i, "",
                  remove_organization(Store, i))

AddOrganizationCourse ==
    \E d \in OrgInputs, k \in CourseKeys :
        Completed("add_organization_course", d, k, 0, "",
                  add_organization_course(Store, d, k))

GetOrganizationCourses ==
    \E d \in OrgInputs :
        Completed("get_organization_courses", d, "", 0, "",
                  get_organization_courses(Store, d))

RemoveOrganizationCourse ==
    \E d \in OrgInputs, k \in CourseKeys :
        Completed("remove_organization_course", d, k, 0, "",
                  remove_organization_course(Store, d, k))

GetCourseOrganizations ==
    \E k \in CourseKeys :
        Completed("get_course_organizations", None, k, 0, "",
                  get_course_organizations(Store, k))

GetCourseOrganization ==
    \E k \in CourseKeys :
        Completed("get_course_organization", None, k, 0, "",
                  get_course_organization(Store, k))

GetCourseOrganizationId ==
    \E k \in CourseKeys :
        Completed("get_course_organization_id", None, k, 0, "",
                  get_course_organization_id(Store, k))

RemoveCourseReferences ==
    \E k \in CourseKeys :
        Completed("remove_course_references", None, k, 0, "",
                  remove_course_references(Store, k))

EnsureOrganization ==
    \E s \in ShortNames :
        Completed("ensure_organization", None, "", 0, s,
                  ensure_organization(Store, settings, s))

IsAutocreateEnabled ==
    Completed("is_autocreate_enabled", None, "", 0, "",
              Outcome(NoException, is_autocreate_enabled(settings), Store, <<>>))

Init ==
    /\ orgs = {}
    /\ links = {}
    /\ next_id = 1
    /\ unique = TRUE
    /\ settings \in DeploymentSettings
    /\ last = NoCall
    /\ pc = [c \in Callers |-> "idle"]
    /\ arg = [c \in Callers |-> ""]
    /\ ret = [c \in Callers |-> NoReturn]

Next ==
    \/ AddOrganization
    \/ EditOrganization
    \/ GetOrganization
    \/ GetOrganizationByShortName
    \/ GetOrganizations
    \/ RemoveOrganization
    \/ AddOrganizationCourse
    \/ GetOrganizationCourses
    \/ RemoveOrganizationCourse
    \/ GetCourseOrganizations
    \/ GetCourseOrganization
    \/ GetCourseOrganizationId
    \/ RemoveCourseReferences
    \/ EnsureOrganization
    \/ IsAutocreateEnabled

Spec == Init /\ [][Next]_vars

(***************************************************************************)
(* The settings resolution alone, over every settings object.              *)
(***************************************************************************)
InitConfig ==
    /\ orgs = {}
    /\ links = {}
    /\ next_id = 1
    /\ unique = TRUE
    /\ settings \in SettingsObjects
    /\ last = NoCall
    /\ pc = [c \in Callers |-> "idle"]
    /\ arg = [c \in Callers |-> ""]
    /\ ret = [c \in Callers |-> NoReturn]

NextConfig == IsAutocreateEnabled

SpecConfig == InitConfig /\ [][NextConfig]_vars

(***************************************************************************)
(* Concurrent callers of ensure_organization.  The function holds no lock  *)
(* and opens no transaction: its fetch, its reading of the settings and    *)
(* its create are separate steps, and another caller's steps may fall      *)
(* between them.                                                           *)
(***************************************************************************)
\* Where ensure_organization goes with what the fetch gave: it returns the
\* organization, handles InvalidOrganizationException, or lets any other
\* exception leave.
\* Mutant: the fetched organization is not returned; the call goes on to the
\* handler as if the fetch had found nothing.
AfterFetch_NoReturn(got) ==
    IF got.exc = NoException THEN "except"
    ELSE IF got.exc = InvalidOrganizationException THEN "except"
    ELSE "done"

AfterFetch(got) ==
    IF got.exc = NoException THEN "done"
    ELSE IF got.exc = InvalidOrganizationException THEN "except"
    ELSE "done"

EnsureFetch(p) ==
    /\ pc[p] = "fetch"
    /\ LET got == get_organization_by_short_name(Store, arg[p])
       IN  /\ pc' = [pc EXCEPT ![p] = AfterFetch(got)]
           /\ ret' = [ret EXCEPT ![p] = [fetched |-> got.exc, exc |-> got.exc,
                                         result |-> got.result, calls |-> got.calls]]
    /\ UNCHANGED <<orgs, links, next_id, unique, settings, last, arg>>

EnsureExcept(p) ==
    /\ pc[p] = "except"
    /\ pc' = [pc EXCEPT ![p] = IF ~is_autocreate_enabled(settings)
                               THEN "done" ELSE "add"]
    /\ UNCHANGED <<orgs, links, next_id, unique, settings, last, arg, ret>>

EnsureAdd(p) ==
    /\ pc[p] = "add"
    /\ LET added == add_organization(Store, AutoCreated(arg[p]))
       IN  /\ Stored(added)
           /\ ret' = [ret EXCEPT ![p] = [fetched |-> @.fetched, exc |-> added.exc,
                                         result |-> added.result,
                                         calls |-> @.calls \o added.calls]]
    /\ pc' = [pc EXCEPT ![p] = "done"]
    /\ UNCHANGED <<last, arg>>

InitRace ==
    /\ orgs = {}
    /\ links = {}
    /\ next_id = 1
    /\ unique \in BOOLEAN
    /\ settings \in SettingsObjects
    /\ last = NoCall
    /\ pc = [c \in Callers |-> "fetch"]
    /\ arg \in [Callers -> ShortNames]
    /\ ret = [c \in Callers |-> NoReturn]

NextRace ==
    \E p \in Callers :
        \/ EnsureFetch(p)
        \/ EnsureExcept(p)
        \/ EnsureAdd(p)

SpecRace == InitRace /\ [][NextRace]_vars

(***************************************************************************)
(* Properties.  A step of the sequential API is recognised by the call it  *)
(* leaves in last; unprimed variables are the state the call started in.   *)
(***************************************************************************)
StorageUnchanged == orgs' = orgs /\ links' = links /\ next_id' = next_id

Creates(calls) == {i \in DOMAIN calls : calls[i] = "create_organization"}

OrgRecordOps ==
    {"add_organization", "edit_organization", "add_organization_course",
     "remove_organization_course", "get_organization_courses"}

CourseKeyOps ==
    {"add_organization_course", "remove_organization_course",
     "get_course_organizations", "get_course_organization",
     "get_course_organization_id", "remove_course_references"}

TakesBoth == OrgRecordOps \cap CourseKeyOps

\* C1: a call ensure_organization(s) with auto-create enabled and no stored
\* organization named s performs exactly one storage create, of a record with
\* short_name = s and name = s, and returns the created record.
C1_EnsureCreatesOne ==
    [][(/\ last'.op = "ensure_organization"
        /\ is_autocreate_enabled(settings)
        /\ OrgsNamed(Store, last'.sname) = {})
       => (/\ Cardinality(Creates(last'.calls)) = 1
           /\ last'.exc = NoException
           /\ last'.result.short_name = last'.sname
           /\ last'.result.name = last'.sname
           /\ orgs' = orgs \cup {last'.result}
           /\ last'.result \notin orgs)]_vars

\* C2: a call ensure_organization(s) with auto-create disabled and no stored
\* organization named s raises InvalidOrganizationException, performs no
\* storage create and leaves the storage as it was.
C2_EnsureDisabledRaises ==
    [][(/\ last'.op = "ensure_organization"
        /\ ~is_autocreate_enabled(settings)
        /\ OrgsNamed(Store, last'.sname) = {})
       => (/\ last'.exc = InvalidOrganizationException
           /\ Creates(last'.calls) = {}
           /\ StorageUnchanged)]_vars

C2_Witness ==
    /\ last.op = "ensure_organization"
    /\ last.sname = "MITx"
    /\ ~is_autocreate_enabled(settings)
    /\ OrgsNamed(Store, last.sname) = {}
    /\ last.exc = InvalidOrganizationException
    /\ orgs # {}

\* C3: whenever an organization with short_name s is stored, a call
\* ensure_organization(s) returns that stored record whatever the auto-create
\* flag, performs no storage create and leaves the storage as it was; so any
\* number of repeated calls return the same record.
C3_EnsureIdempotent ==
    [][(/\ last'.op = "ensure_organization"
        /\ OrgsNamed(Store, last'.sname) # {})
       => (/\ last'.exc = NoException
           /\ last'.result \in OrgsNamed(Store, last'.sname)
           /\ Creates(last'.calls) = {}
           /\ last'.calls = <<"fetch_organization_by_short_name">>
           /\ StorageUnchanged)]_vars

C3_Witness ==
    /\ last.op = "ensure_organization"
    /\ ~is_autocreate_enabled(settings)
    /\ last.exc = NoException
    /\ last.result \in orgs
    /\ last.result.short_name = last.sname
    /\ Cardinality(orgs) = 2

\* C4: a call ensure_organization(s) made while auto-create is enabled never
\* ends in InvalidOrganizationException.
C4_EnabledNeverInvalidOrganization ==
    (last.op = "ensure_organization" /\ is_autocreate_enabled(settings))
        => last.exc # InvalidOrganizationException

\* C5: each operation that accepts an organization record, called with an
\* invalid record (and, where it takes a course key too, a valid one), raises
\* InvalidOrganizationException, makes no data-layer call and leaves the
\* storage as it was.
C5_InvalidOrganizationRejected ==
    [][(/\ last'.op \in OrgRecordOps
        /\ ~organization_data_is_valid(last'.org)
        /\ (last'.op \in TakesBoth => course_key_is_valid(last'.key)))
       => (/\ last'.exc = InvalidOrganizationException
           /\ last'.calls = <<>>
           /\ StorageUnchanged)]_vars

C5_Witness ==
    /\ last.op = "get_organization_courses"
    /\ last.org # None
    /\ ~organization_data_is_valid(last.org)
    /\ "id" \in DOMAIN last.org
    /\ \E l \in links : l[1] = last.org.id
    /\ last.exc = InvalidOrganizationException
    /\ last.calls = <<>>

\* C6: each operation that accepts a course key, called with an invalid key
\* (and, where it takes an organization record too, a valid one), raises
\* InvalidCourseKeyException, makes no data-layer call and leaves the storage
\* as it was.
C6_InvalidCourseKeyRejected ==
    [][(/\ last'.op \in CourseKeyOps
        /\ ~course_key_is_valid(last'.key)
        /\ (last'.op \in TakesBoth => organization_data_is_valid(last'.org)))
       => (/\ last'.exc = InvalidCourseKeyException
           /\ last'.calls = <<>>
           /\ StorageUnchanged)]_vars

C6_Witness ==
    /\ last.op = "remove_course_references"
    /\ ~course_key_is_valid(last.key)
    /\ last.exc = InvalidCourseKeyException
    /\ last.calls = <<>>
    /\ links # {}

\* C7: is_autocreate_enabled() returns the boolean value of
\* ORGANIZATIONS_AUTOCREATE when that setting exists, whatever the legacy flag;
\* otherwise False when FEATURES exists and holds a true ORGANIZATIONS_APP; and
\* True when ORGANIZATIONS_APP is false or missing or FEATURES does not exist.
LegacyFlagTrue ==
    /\ "FEATURES" \in settings.has
    /\ \E p \in settings.FEATURES : p[1] = "ORGANIZATIONS_APP" /\ bool(p[2])

C7_AutocreateResolution ==
    last.op = "is_autocreate_enabled"
        => /\ last.exc = NoException
           /\ "ORGANIZATIONS_AUTOCREATE" \in settings.has
                => last.result = bool(settings.ORGANIZATIONS_AUTOCREATE)
           /\ ("ORGANIZATIONS_AUTOCREATE" \notin settings.has /\ LegacyFlagTrue)
                => last.result = FALSE
           /\ ("ORGANIZATIONS_AUTOCREATE" \notin settings.has /\ ~LegacyFlagTrue)
                => last.result = TRUE

C7_Witness ==
    /\ last.op = "is_autocreate_enabled"
    /\ settings.has = {"ORGANIZATIONS_AUTOCREATE", "FEATURES"}
    /\ settings.ORGANIZATIONS_AUTOCREATE = "True"
    /\ LegacyFlagTrue
    /\ last.result = TRUE

\* C8: for a valid course key k, get_course_organization(k) returns the first
\* element of what get_course_organizations(k) returns, or None when that is
\* empty; get_course_organization_id(k) returns the id of that first
\* organization, or None; neither call changes the storage.
C8_FirstCourseOrganization ==
    [][(/\ last'.op \in {"get_course_organization", "get_course_organization_id"}
        /\ course_key_is_valid(last'.key))
       => LET all == get_course_organizations(Store, last'.key).result
          IN  /\ last'.exc = NoException
              /\ StorageUnchanged
              /\ (Len(all) = 0 => last'.result = None)
              /\ (Len(all) > 0 /\ last'.op = "get_course_organization")
                    => last'.result = all[1]
              /\ (Len(all) > 0 /\ last'.op = "get_course_organization_id")
                    => last'.result = all[1].id]_vars

C8_Witness ==
    /\ last.op = "get_course_organization_id"
    /\ course_key_is_valid(last.key)
    /\ Cardinality({l \in links : l[2] = last.key}) = 2
    /\ Cardinality(links) = 2
    /\ last.exc = NoException
    /\ last.result = 1

\* C9: two stored organizations share a short name s only if the storage does
\* not enforce uniqueness, auto-create is enabled, and both concurrent callers
\* ran ensure_organization(s), each fetch having found no organization named s
\* before either create; and that state is reached.
C9_DuplicateOnlyByRace ==
    \A s \in ShortNames :
        Cardinality(OrgsNamed(Store, s)) > 1
            => /\ ~unique
               /\ is_autocreate_enabled(settings)
               /\ \A p \in Callers :
                    /\ arg[p] = s
                    /\ pc[p] = "done"
                    /\ ret[p].fetched = InvalidOrganizationException
                    /\ ret[p].exc = NoException
                    /\ Cardinality(Creates(ret[p].calls)) = 1

C9_Witness ==
    /\ \A p \in Callers : pc[p] = "done" /\ arg[p] = "MITx" /\ ret[p].exc = NoException
    /\ ret[1].result # ret[2].result
    /\ Cardinality(OrgsNamed(Store, "MITx")) = 2

\* C10: with an invalid organization record and an invalid course key,
\* add_organization_course raises InvalidCourseKeyException and
\* remove_organization_course raises InvalidOrganizationException; neither
\* makes a data-layer call or changes the storage.
C10_ValidationOrder ==
    [][(/\ last'.op \in TakesBoth
        /\ ~organization_data_is_valid(last'.org)
        /\ ~course_key_is_valid(last'.key))
       => (/\ last'.op = "add_organization_course"
                => last'.exc = InvalidCourseKeyException
           /\ last'.op = "remove_organization_course"
                => last'.exc = InvalidOrganizationException
           /\ last'.calls = <<>>
           /\ StorageUnchanged)]_vars

C10_Witness ==
    /\ last.op = "remove_organization_course"
    /\ ~organization_data_is_valid(last.org)
    /\ ~course_key_is_valid(last.key)
    /\ last.exc = InvalidOrganizationException
    /\ last.calls = <<>>
    /\ links # {}

====
